---------------------------- MODULE Spec2Model ----------------------------
(***************************************************************************)
(* A model of the GPflux repository:                                       *)
(*   - the modular Deep GP core (src/gpflux/models/deep_gp.py),            *)
(*   - the Deep-GP benchmark adapter and its shared Config class           *)
(*     (src/experiments/bayesian_benchmarks/bayesbench_deepgp.py),         *)
(*   - the optimisation loops of both benchmark adapters,                  *)
(*   - the Conditional-Latent benchmark adapter's fit and predict          *)
(*     (src/experiments/bayesian_benchmarks/bayesbench_latent_deep_gp.py), *)
(*   - init_inducing_points and build_deep_gp of the adapters,             *)
(*   - the latent-variable encoders (src/v1_depr/gpflux/encoders.py),      *)
(*   - experiment_name and setup_model of src/scratch/index_kernel.py,     *)
(*   - the experiment runner's entry points and its dispatcher             *)
(*     (src/experiments/experiment_runner/examples/).                      *)
(*                                                                         *)
(* Python's Optional[T] is modelled as a set with at most one element:     *)
(* None is {} and a value v is {v}.                                        *)
(***************************************************************************)
EXTENDS Integers, Sequences, FiniteSets, TLC

VARIABLES
    \* ---- modular Deep GP core (deep_gp.py)
    f_layers,       \* the list of function layers handed to DeepGP.__init__
    num_data_arg,   \* the explicit num_data argument (Optional[int])
    dgp,            \* the DeepGP object: construction status and self.num_data
    sample_calls,   \* how often layer.sample() was called, per function layer
    samples,        \* the ChainedSample objects returned so far (their function_draws)
    lastOp,         \* trace of the last operation: the layer calls it made, its result
    \* ---- Deep-GP benchmark adapter (bayesbench_deepgp.py)
    Config,         \* the attributes of the class BayesBench_DeepGP.Config
    adapters,       \* the BayesBench_DeepGP objects constructed so far
    lastCall,       \* the last adapter call: its arguments and what it did
    \* ---- _optimize of the two benchmark adapters
    opt,            \* which adapter's _optimize runs, and the Config it was given
    trainable,      \* the trainable flag of every parameter of self.model
    adam_vars,      \* the variables Adam's minimize was built over (None: not built)
    nat_vars,       \* var_params of the natural-gradient step (None: natgrad_step is None)
    pc,             \* where _optimize stands
    iter,           \* the loop variable i
    steps,          \* how many natgrad steps, Adam steps and monitor calls have run
    ctx,            \* the Monitor context of the loop: times entered, times exited, what raised
    updated,        \* the parameters the last natgrad step and the last Adam step updated
    \* ---- Conditional-Latent benchmark adapter (bayesbench_latent_deep_gp.py)
    latent,         \* the BayesBench_ConditionalLatentDeepGP object
    built,          \* the model build_deep_gp returned last (None: not called)
    lastFit,        \* the last fit or predict of a benchmark adapter: what it built and returned
    \* ---- init_inducing_points of the benchmark adapters
    ind,            \* the array X, the number asked for, and the array returned (None: not called)
    \* ---- encoders (v1_depr/gpflux/encoders.py)
    enc,            \* the encoder constructed last: its arguments and parameters, or the error
    encOut,         \* the last encoder call: the batch and what it returned
    \* ---- the indexed-kernel experiment script (scratch/index_kernel.py)
    runs,           \* the previous and the last run of the script: config, name, model set up
    \* ---- the experiment runner's entry points and its dispatcher run_multiple
    dargs,          \* the command line of the entry point (example "none": not started)
    handed,         \* the list of specifications handed to run_multiple
    queue,          \* the positions of handed that are still to be started, in order
    exps,           \* per position: status, device held, number of starts, output location
    startOrder,     \* the positions started so far, in the order of their start
    \* ---- the convolutional kernel and its tests (tests/test_conv_kernel.py)
    conv,           \* the ConvKernel constructed last (kind "none": none yet)
    convTest,       \* the last test run: what it expected, what the kernel reported
    \* ---- main of the indexed-kernel experiment script
    mainRun         \* where main stands, the steps it has made in order, the files written

dgpVars == <<f_layers, num_data_arg, dgp, sample_calls, samples, lastOp>>

adapterVars == <<Config, adapters, lastCall>>

optVars == <<opt, trainable, adam_vars, nat_vars, pc, iter, updated, steps, ctx>>

latentVars == <<latent, built, lastFit>>

encVars == <<enc, encOut>>

dispVars == <<dargs, handed, queue, exps, startOrder>>

convVars == <<conv, convTest>>

restVars == <<convVars, mainRun>>

extVars == <<latentVars, ind, encVars, runs, dispVars, restVars>>

vars == <<dgpVars, adapterVars, optVars, extVars>>

---------------------------------------------------------------------------
\* Optional[T]

None == {}

Some(v) == {v}

The(o) == CHOOSE v \in o : TRUE

---------------------------------------------------------------------------
\* Bounds of the model

MaxLayers == 3

MaxSamples == 2

\* values a layer's num_data attribute and the num_data argument are drawn from
NumDataVals == {1, 2}

\* input and target batches
Batches == {1, 2}

\* (X, Y) data handed to elbo
DataPairs == {<<1, 2>>, <<2, 2>>}

\* what one layer call may leave in layer.losses
LossLists == {<<>>, <<1, 2>>}

\* benchmark adapter objects constructed in one process
MaxAdapters == 2

\* numbers of rows of the training inputs X and of the targets Y
RowCounts == {1000, 1001}

\* init_inducing_points: most rows of X, largest number of inducing points, and
\* the values a row of X is drawn from
MaxRows == 3

MaxNum == 4

RowValues == {1, 2}

\* encoders: largest latent_dim, num_data and batch
MaxLatentDim == 2

MaxNumData == 3

MaxBatch == 3

\* hidden widths of a recognition network
NetworkDims == {<<>>, <<3>>, <<3, 2>>}

\* the settings the experiment script is run with.  A Python value is a record
\* naming its type: [str |-> ...], [int |-> ...], or [float |-> its shortest repr]
Datasets == {"01", "full"}

InitPatches == {"patches", "patches-unique", "random", "normal"}

BaseKerns == {"RBF"}

AdamLrs == {[float |-> "0.01"], [str |-> "decay"]}

InducingCounts == {100, 500}

MinibatchSizes == {100}

PatchSizes == {<<5, 5>>, <<5, 3>>}

\* numbers of training images data() returns for "01" and for "full"
TrainingImages(dataset) == IF dataset = "01" THEN 12665 ELSE 60000

\* the experiment runner: largest --repetitions, the devices a machine has
\* (--gpus names one or more of them), and the value of --path
MaxRepetitions == 2

MaxGpus == 2

Paths == {"test"}

\* the convolutional kernel: largest image side
MaxImage == 4

\* class Data of tests/test_conv_kernel.py
Data_w == 3

Data_h == 3

Data_W == 28

Data_H == 28

\* numbers of columns of the training inputs X
InputDims == {1, 2}

\* numbers of rows of X and of Y handed to the Conditional-Latent adapter's fit
LatentRowCounts == {6, 1001}

\* numbers of rows handed to predict
PredictRows == {1, 3}

\* held-out inputs handed to fit as Xt
HeldOut == {"Xt"}

\* numbers of columns of the targets Y; None is a one-dimensional Y
YColumns == {None, Some(1), Some(2)}

---------------------------------------------------------------------------
\* class BayesBench_DeepGP.Config: the attributes as the class statement sets them

NATGRAD == TRUE

M == 100

MAXITER == 10000

MINIBATCH == 1000

\* the test-mode overrides of BayesBench_DeepGP.__init__
M_is_test == 5

MAXITER_is_test == 500

ConfigClass ==
    [NATGRAD |-> NATGRAD, M |-> M, MAXITER |-> MAXITER, MINIBATCH |-> Some(MINIBATCH)]

\* no adapter constructed yet
AdapterIdle ==
    /\ Config = ConfigClass
    /\ adapters = <<>>
    /\ lastCall = [op |-> "none"]

\* the parameters of the two-layer models the adapters build
Params == {"first.q_mu", "first.q_sqrt", "first.kernel", "last.q_mu", "last.q_sqrt",
           "last.kernel", "likelihood.variance"}

\* no _optimize running
OptimizeIdle ==
    /\ opt = [adapter |-> "none"]
    /\ trainable = [p \in Params |-> TRUE]
    /\ adam_vars = None
    /\ nat_vars = None
    /\ pc = "idle"
    /\ iter = 0
    /\ updated = [natgrad |-> {}, adam |-> {}]
    /\ steps = [natgrad |-> 0, adam |-> 0, monitor |-> 0]
    /\ ctx = [entered |-> 0, exited |-> 0, raised |-> "none"]

\* the Config attributes of BayesBench_ConditionalLatentDeepGP.fit
LATENT_DIM == 1

MB == 1000

\* the Conditional-Latent adapter object before its first fit, and no model
\* built by build_deep_gp
LatentIdle ==
    /\ latent = [is_test |-> FALSE, Xt |-> None, Yt |-> None, model |-> None]
    /\ built = None
    /\ lastFit = [op |-> "none"]

\* the components outside the specification at hand, left aside
\* init_inducing_points not called
InducingIdle == ind = [X |-> [rows |-> <<>>, dim |-> 1], num |-> 1, Z |-> None]

\* no encoder constructed
EncoderIdle ==
    /\ enc = [kind |-> "none"]
    /\ encOut = [op |-> "none"]

\* the experiment script not run
IndexKernelIdle == runs = [prev |-> None, last |-> None]

\* no entry point of the experiment runner started
DispatchIdle ==
    /\ dargs = [example |-> "none"]
    /\ handed = <<>>
    /\ queue = <<>>
    /\ exps = <<>>
    /\ startOrder = <<>>

\* no convolutional kernel constructed, no test run
ConvIdle ==
    /\ conv = [kind |-> "none"]
    /\ convTest = [test |-> "none"]

\* main of the experiment script not entered
MainIdle ==
    mainRun = [cfg |-> None, pc |-> 0, steps |-> <<>>, files |-> <<>>, model |-> None,
               returned |-> None]

ExtIdle ==
    /\ LatentIdle
    /\ InducingIdle
    /\ EncoderIdle
    /\ IndexKernelIdle
    /\ DispatchIdle
    /\ ConvIdle
    /\ MainIdle

\* the Deep GP core left aside
DeepGPIdle ==
    /\ f_layers = <<>>
    /\ num_data_arg = None
    /\ dgp = [status |-> "new", num_data |-> None]
    /\ sample_calls = <<>>
    /\ samples = <<>>
    /\ lastOp = [op |-> "none"]

---------------------------------------------------------------------------
\* Layers.  A layer either has a num_data attribute (possibly None) or has
\* none at all, and either is a LayerWithObservations or is not.

Layers ==
    { l \in [has_num_data : BOOLEAN,
             num_data : {None} \cup {Some(v) : v \in NumDataVals},
             with_observations : BOOLEAN] :
        ~l.has_num_data => l.num_data = None }

LayerLists == UNION { [1..n -> Layers] : n \in 0..MaxLayers }

\* getattr(layer, "num_data", None)
getattr_num_data(layer) == IF layer.has_num_data THEN layer.num_data ELSE None

\* DeepGP._validate_num_data: [raised |-> TRUE] or [raised |-> FALSE, value |-> n]
RECURSIVE validate_loop(_, _, _)
validate_loop(layers, i, num_data) ==
    IF i > Len(layers)
    THEN IF num_data = None
         THEN [raised |-> TRUE, value |-> None]
         ELSE [raised |-> FALSE, value |-> num_data]
    ELSE LET layer_num_data == getattr_num_data(layers[i])
         IN  IF num_data = None
             THEN validate_loop(layers, i + 1, layer_num_data)
             ELSE IF layer_num_data # None /\ num_data # layer_num_data
                  THEN [raised |-> TRUE, value |-> None]
                  ELSE validate_loop(layers, i + 1, num_data)

\* a variant that treats a layer without num_data as a disagreement
RECURSIVE validate_loop_strict(_, _, _)
validate_loop_strict(layers, i, num_data) ==
    IF i > Len(layers)
    THEN IF num_data = None
         THEN [raised |-> TRUE, value |-> None]
         ELSE [raised |-> FALSE, value |-> num_data]
    ELSE LET layer_num_data == getattr_num_data(layers[i])
         IN  IF num_data = None
             THEN validate_loop_strict(layers, i + 1, layer_num_data)
             ELSE IF num_data # layer_num_data
                  THEN [raised |-> TRUE, value |-> None]
                  ELSE validate_loop_strict(layers, i + 1, num_data)

validate_num_data_strict(layers, num_data) == validate_loop_strict(layers, 1, num_data)

\* a variant in which every layer that defines num_data overwrites the value
RECURSIVE validate_loop_overwrite(_, _, _)
validate_loop_overwrite(layers, i, num_data) ==
    IF i > Len(layers)
    THEN IF num_data = None
         THEN [raised |-> TRUE, value |-> None]
         ELSE [raised |-> FALSE, value |-> num_data]
    ELSE LET layer_num_data == getattr_num_data(layers[i])
         IN  IF layer_num_data # None
             THEN validate_loop_overwrite(layers, i + 1, layer_num_data)
             ELSE validate_loop_overwrite(layers, i + 1, num_data)

validate_num_data_overwrite(layers, num_data) ==
    validate_loop_overwrite(layers, 1, num_data)

\* DeepGP._validate_num_data(f_layers, num_data)
validate_num_data(layers, num_data) == validate_loop(layers, 1, num_data)

---------------------------------------------------------------------------
\* Tensors are symbolic: a tensor is the batch it started from and the list
\* of layers (or drawn sample functions) it went through.

Tensor(batch) == [src |-> batch, path |-> <<>>]

\* layer(features, ...): the output of the i-th function layer
LayerOutput(i, features) == [src |-> features.src, path |-> Append(features.path, i)]

\* DeepGP._evaluate_deep_gp: [features, calls], calls being the layer calls in order
RECURSIVE evaluate_loop(_, _, _, _, _, _)
evaluate_loop(layers, i, features, observations, training, calls) ==
    IF i > Len(layers)
    THEN [features |-> features, calls |-> calls]
    ELSE LET call ==
                 IF layers[i].with_observations
                 THEN [layer |-> i, features |-> features, obs_passed |-> TRUE,
                       observations |-> observations, training |-> training]
                 ELSE [layer |-> i, features |-> features, obs_passed |-> FALSE,
                       observations |-> None, training |-> training]
         IN  evaluate_loop(layers, i + 1, LayerOutput(i, features), observations,
                           training, Append(calls, call))

\* a variant that builds the observations from the running features
RECURSIVE evaluate_loop_running(_, _, _, _, _, _)
evaluate_loop_running(layers, i, features, targets, training, calls) ==
    IF i > Len(layers)
    THEN [features |-> features, calls |-> calls]
    ELSE LET observations ==
                 IF targets # None THEN Some(<<features, The(targets)>>) ELSE None
             call ==
                 IF layers[i].with_observations
                 THEN [layer |-> i, features |-> features, obs_passed |-> TRUE,
                       observations |-> observations, training |-> training]
                 ELSE [layer |-> i, features |-> features, obs_passed |-> FALSE,
                       observations |-> None, training |-> training]
         IN  evaluate_loop_running(layers, i + 1, LayerOutput(i, features), targets,
                                   training, Append(calls, call))

evaluate_deep_gp_running(layers, inputs, targets, training) ==
    evaluate_loop_running(layers, 1, inputs, targets, training, <<>>)

\* DeepGP._evaluate_deep_gp(inputs, targets, training)
evaluate_deep_gp(layers, inputs, targets, training) ==
    LET observations == IF targets # None THEN Some(<<inputs, The(targets)>>) ELSE None
    IN  evaluate_loop(layers, 1, inputs, observations, training, <<>>)

\* DeepGP._evaluate_likelihood: the call made on the likelihood layer
evaluate_likelihood(f_outputs, targets, training) ==
    [f_outputs |-> f_outputs, targets |-> targets, training |-> training]

\* DeepGP.call: the function layers, then the likelihood layer
call(layers, inputs, targets, training) ==
    LET f == evaluate_deep_gp(layers, inputs, targets, training)
    IN  [calls |-> f.calls,
         lik_calls |-> <<evaluate_likelihood(f.features, targets, training)>>,
         outputs |-> f.features]

---------------------------------------------------------------------------
\* Losses and the ELBO

RECURSIVE reduce_sum(_)
reduce_sum(s) == IF s = <<>> THEN 0 ELSE Head(s) + reduce_sum(Tail(s))

\* [loss for layer in chain(f_layers, [likelihood_layer]) for loss in layer.losses]
\* ls[i] is layer i's losses; the likelihood layer is number n_layers + 1
RECURSIVE chain_losses(_, _)
chain_losses(ls, n) == IF n = 0 THEN <<>> ELSE chain_losses(ls, n - 1) \o ls[n]

\* a variant that chains the function layers only
all_losses_f_layers(ls, n_layers) == chain_losses(ls, n_layers)

all_losses(ls, n_layers) == chain_losses(ls, n_layers + 1)

\* the value DeepGP.elbo returns
elbo_value(ls, n_layers, num_data) ==
    (0 - reduce_sum(all_losses(ls, n_layers))) * num_data

---------------------------------------------------------------------------
\* Function samples

\* [layer.sample() for layer in model.f_layers]: layer i's k-th draw is <<i, k>>
RECURSIVE sample_loop(_, _, _, _)
sample_loop(n_layers, i, counts, acc) ==
    IF i > n_layers
    THEN [draws |-> acc.draws, counts |-> counts, sampled |-> acc.sampled]
    ELSE sample_loop(n_layers, i + 1, [counts EXCEPT ![i] = @ + 1],
                     [draws |-> Append(acc.draws, <<i, counts[i] + 1>>),
                      sampled |-> Append(acc.sampled, i)])

function_draws(n_layers, counts) ==
    sample_loop(n_layers, 1, counts, [draws |-> <<>>, sampled |-> <<>>])

\* ChainedSample.__call__: for f in function_draws: X = f(X)
RECURSIVE chain_loop(_, _, _)
chain_loop(draws, i, X) ==
    IF i > Len(draws)
    THEN X
    ELSE chain_loop(draws, i + 1, [src |-> X.src, path |-> Append(X.path, draws[i])])

\* a variant that draws from every layer again on each call
ChainedSample_call_redraw(draws, X, counts) ==
    LET d == function_draws(Len(draws), counts)
    IN  [result |-> chain_loop(d.draws, 1, X), counts |-> d.counts, sampled |-> d.sampled]

ChainedSample_call(draws, X, counts) ==
    [result |-> chain_loop(draws, 1, X), counts |-> counts, sampled |-> <<>>]

---------------------------------------------------------------------------
\* State

NoOp == [op |-> "none", inputs |-> None, targets |-> None, calls |-> <<>>,
         lik_calls |-> <<>>, losses |-> <<>>, sampled |-> <<>>, sample |-> None,
         result |-> None]

\* the constructor arguments of DeepGP, layers of at most max_layers layers
InitWith(layer_lists, num_data_args) ==
    /\ f_layers \in layer_lists
    /\ num_data_arg \in num_data_args
    /\ dgp = [status |-> "new", num_data |-> None]
    /\ sample_calls = [i \in 1..Len(f_layers) |-> 0]
    /\ samples = <<>>
    /\ lastOp = NoOp
    /\ AdapterIdle
    /\ OptimizeIdle
    /\ ExtIdle

\* DeepGP.__init__
Construct ==
    /\ dgp.status = "new"
    /\ LET r == validate_num_data(f_layers, num_data_arg)
       IN  dgp' = IF r.raised
                  THEN [status |-> "ValueError", num_data |-> None]
                  ELSE [status |-> "ready", num_data |-> r.value]
    /\ lastOp' = [NoOp EXCEPT !.op = "__init__"]
    /\ UNCHANGED <<f_layers, num_data_arg, sample_calls, samples, adapterVars, optVars, extVars>>

\* the symbolic placeholders self.inputs and self.targets
inputs_placeholder == 0

targets_placeholder == 0

\* DeepGP.predict_f
predict_f(X) ==
    /\ dgp.status = "ready"
    /\ LET f == evaluate_deep_gp(f_layers, Tensor(X), None, None)
       IN  lastOp' = [NoOp EXCEPT !.op = "predict_f", !.inputs = Some(Tensor(X)),
                                  !.calls = f.calls, !.result = Some(f.features)]
    /\ UNCHANGED <<f_layers, num_data_arg, dgp, sample_calls, samples, adapterVars, optVars, extVars>>

\* DeepGP.as_training_model
as_training_model ==
    /\ dgp.status = "ready"
    /\ LET c == call(f_layers, Tensor(inputs_placeholder),
                     Some(Tensor(targets_placeholder)), None)
       IN  lastOp' = [NoOp EXCEPT !.op = "as_training_model",
                                  !.inputs = Some(Tensor(inputs_placeholder)),
                                  !.targets = Some(Tensor(targets_placeholder)),
                                  !.calls = c.calls, !.lik_calls = c.lik_calls,
                                  !.result = Some(c.outputs)]
    /\ UNCHANGED <<f_layers, num_data_arg, dgp, sample_calls, samples, adapterVars, optVars, extVars>>

\* a variant that hands the targets placeholder to the prediction model's call
as_prediction_model_with_targets ==
    /\ dgp.status = "ready"
    /\ LET c == call(f_layers, Tensor(inputs_placeholder),
                     Some(Tensor(targets_placeholder)), None)
       IN  lastOp' = [NoOp EXCEPT !.op = "as_prediction_model",
                                  !.inputs = Some(Tensor(inputs_placeholder)),
                                  !.calls = c.calls, !.lik_calls = c.lik_calls,
                                  !.result = Some(c.outputs)]
    /\ UNCHANGED <<f_layers, num_data_arg, dgp, sample_calls, samples, adapterVars, optVars, extVars>>

\* DeepGP.as_prediction_model
as_prediction_model ==
    /\ dgp.status = "ready"
    /\ LET c == call(f_layers, Tensor(inputs_placeholder), None, None)
       IN  lastOp' = [NoOp EXCEPT !.op = "as_prediction_model",
                                  !.inputs = Some(Tensor(inputs_placeholder)),
                                  !.calls = c.calls, !.lik_calls = c.lik_calls,
                                  !.result = Some(c.outputs)]
    /\ UNCHANGED <<f_layers, num_data_arg, dgp, sample_calls, samples, adapterVars, optVars, extVars>>

\* DeepGP.elbo.  What the call leaves in the losses of each layer is not fixed by
\* this repository: any list of LossLists, for every layer.
elbo(X, Y) ==
    /\ dgp.status = "ready"
    /\ \E recorded \in [1..(Len(f_layers) + 1) -> LossLists] :
           LET c == call(f_layers, Tensor(X), Some(Tensor(Y)), Some(TRUE))
           IN  lastOp' = [NoOp EXCEPT
                             !.op = "elbo", !.inputs = Some(Tensor(X)),
                             !.targets = Some(Tensor(Y)),
                             !.calls = c.calls, !.lik_calls = c.lik_calls,
                             !.losses = recorded,
                             !.result = Some(elbo_value(recorded, Len(f_layers),
                                                        The(dgp.num_data)))]
    /\ UNCHANGED <<f_layers, num_data_arg, dgp, sample_calls, samples, adapterVars, optVars, extVars>>

\* sample_dgp(model)
sample_dgp ==
    /\ dgp.status = "ready"
    /\ Len(samples) < MaxSamples
    /\ LET d == function_draws(Len(f_layers), sample_calls)
       IN  /\ sample_calls' = d.counts
           /\ samples' = Append(samples, d.draws)
           /\ lastOp' = [NoOp EXCEPT !.op = "sample_dgp", !.sampled = d.sampled,
                                     !.sample = Some(Len(samples) + 1)]
    /\ UNCHANGED <<f_layers, num_data_arg, dgp, adapterVars, optVars, extVars>>

\* calling the k-th ChainedSample on X
sample_call(k, X) ==
    /\ k \in 1..Len(samples)
    /\ LET r == ChainedSample_call(samples[k], Tensor(X), sample_calls)
       IN  /\ sample_calls' = r.counts
           /\ lastOp' = [NoOp EXCEPT !.op = "sample_call", !.inputs = Some(Tensor(X)),
                                     !.sampled = r.sampled, !.sample = Some(k),
                                     !.result = Some(r.result)]
    /\ UNCHANGED <<f_layers, num_data_arg, dgp, samples, adapterVars, optVars, extVars>>

NextDeepGP ==
    \/ Construct
    \/ \E X \in Batches : predict_f(X)
    \/ as_training_model
    \/ as_prediction_model
    \/ \E d \in DataPairs : elbo(d[1], d[2])
    \/ sample_dgp
    \/ \E k \in 1..MaxSamples, X \in Batches : sample_call(k, X)

\* The model and its operations, on layers that carry no num_data of their own
Init ==
    InitWith(UNION { [1..n -> { l \in Layers : ~l.has_num_data }] : n \in 0..MaxLayers },
             {None} \cup {Some(v) : v \in NumDataVals})

Next == NextDeepGP

Spec == Init /\ [][Next]_vars

\* Construction alone, on every combination of num_data values
InitValidate ==
    InitWith(LayerLists, {None} \cup {Some(v) : v \in NumDataVals})

NextValidate == Construct

SpecValidate == InitValidate /\ [][NextValidate]_vars

---------------------------------------------------------------------------
\* The Deep-GP benchmark adapter.  Every BayesBench_DeepGP object reads and
\* writes the one class object BayesBench_DeepGP.Config through self.Config.

\* a Config object the caller makes for one fit call and hands in as Config=
CallerConfig ==
    [NATGRAD |-> FALSE, M |-> M, MAXITER |-> MAXITER, MINIBATCH |-> Some(MINIBATCH)]

\* BayesBench_DeepGP.__init__(is_test)
BayesBench_DeepGP_init(is_test) ==
    /\ Len(adapters) < MaxAdapters
    /\ adapters' = Append(adapters, [is_test |-> is_test, Xt |-> None, model |-> None])
    /\ Config' = IF is_test
                 THEN [Config EXCEPT !.M = M_is_test, !.MAXITER = MAXITER_is_test]
                 ELSE Config
    /\ lastCall' = [op |-> "__init__", self |-> Len(adapters) + 1]
    /\ UNCHANGED <<dgpVars, optVars, extVars>>

\* the part of _optimize that settles how the data is fed: None is full-batch,
\* a value is the minibatch size
batch_size(cfg, num_data) ==
    IF cfg.MINIBATCH # None
    THEN Some(IF The(cfg.MINIBATCH) <= num_data THEN The(cfg.MINIBATCH) ELSE num_data)
    ELSE None

\* what fit hands to _optimize and what the training loop then runs with
training(cfg, num_data) ==
    [M |-> cfg.M, MAXITER |-> cfg.MAXITER, NATGRAD |-> cfg.NATGRAD,
     batch_size |-> batch_size(cfg, num_data)]

\* a variant of fit that checks the shape of Y only after the minibatch setting
\* and the held-out data are written
fit_run_checks_late(cfg, me, num_data, y_rows, y_cols, Xt) ==
    IF cfg.MINIBATCH = None
    THEN [raised |-> Some("TypeError"), cfg |-> cfg, me |-> me, trained |-> None]
    ELSE LET cfg2 == IF num_data <= The(cfg.MINIBATCH)
                     THEN [cfg EXCEPT !.MINIBATCH = None]
                     ELSE cfg
             me2 == [me EXCEPT !.Xt = Some(Xt)]
         IN  IF y_rows # num_data
             THEN [raised |-> Some("AssertionError"), cfg |-> cfg2, me |-> me2,
                   trained |-> None]
             ELSE IF y_cols = None
             THEN [raised |-> Some("IndexError"), cfg |-> cfg2, me |-> me2,
                   trained |-> None]
             ELSE IF The(y_cols) # 1
             THEN [raised |-> Some("AssertionError"), cfg |-> cfg2, me |-> me2,
                   trained |-> None]
             ELSE [raised |-> None, cfg |-> cfg2,
                   me |-> [me2 EXCEPT !.model = Some(cfg2.M)],
                   trained |-> Some(training(cfg2, num_data))]

\* BayesBench_DeepGP.fit up to the first exception or to the end of _optimize.
\* cfg is the Config object in use and me the adapter object, before the call.
\* The result names the exception raised (None: none), the Config object and the
\* adapter object after the call, and the training that ran.
fit_run(cfg, me, num_data, y_rows, y_cols, Xt) ==
    IF y_rows # num_data
    THEN \* assert Y.shape[0] == num_data
         [raised |-> Some("AssertionError"), cfg |-> cfg, me |-> me, trained |-> None]
    ELSE IF y_cols = None
    THEN \* Y.shape[1] of a one-dimensional Y
         [raised |-> Some("IndexError"), cfg |-> cfg, me |-> me, trained |-> None]
    ELSE IF The(y_cols) # 1
    THEN \* assert Y_dim == 1
         [raised |-> Some("AssertionError"), cfg |-> cfg, me |-> me, trained |-> None]
    ELSE IF cfg.MINIBATCH = None
    THEN \* num_data <= None
         [raised |-> Some("TypeError"), cfg |-> cfg, me |-> me, trained |-> None]
    ELSE LET cfg2 == IF num_data <= The(cfg.MINIBATCH)
                     THEN [cfg EXCEPT !.MINIBATCH = None]
                     ELSE cfg
         IN  [raised |-> None, cfg |-> cfg2,
              me |-> [me EXCEPT !.Xt = Some(Xt), !.model = Some(cfg2.M)],
              trained |-> Some(training(cfg2, num_data))]

\* self.fit(X, Y, Xt, Yt, Config=None or a Config of the caller's)
fit(self, num_data, y_rows, y_cols, Xt, own_config) ==
    /\ self \in 1..Len(adapters)
    /\ LET r == fit_run(IF own_config THEN CallerConfig ELSE Config, adapters[self],
                        num_data, y_rows, y_cols, Xt)
       IN  /\ Config' = IF own_config THEN Config ELSE r.cfg
           /\ adapters' = [adapters EXCEPT ![self] = r.me]
           /\ lastCall' = [op |-> "fit", self |-> self, num_data |-> num_data,
                           y_rows |-> y_rows, y_cols |-> y_cols,
                           own_config |-> own_config, raised |-> r.raised,
                           trained |-> r.trained]
    /\ UNCHANGED <<dgpVars, optVars, extVars>>

InitAdapter ==
    /\ DeepGPIdle
    /\ AdapterIdle
    /\ OptimizeIdle
    /\ ExtIdle

NextAdapter ==
    \/ \E is_test \in BOOLEAN : BayesBench_DeepGP_init(is_test)
    \/ \E self \in 1..MaxAdapters, num_data \in RowCounts, y_rows \in RowCounts,
          y_cols \in YColumns, Xt \in HeldOut, own_config \in BOOLEAN :
           fit(self, num_data, y_rows, y_cols, Xt, own_config)

SpecAdapter == InitAdapter /\ [][NextAdapter]_vars

---------------------------------------------------------------------------
\* _optimize of BayesBench_DeepGP and of BayesBench_ConditionalLatentDeepGP

\* the test-mode and normal settings of the Config class local to
\* BayesBench_ConditionalLatentDeepGP.fit
LatentConfigs ==
    { [NATGRAD |-> TRUE, FIX_VAR |-> FALSE, M |-> 5, MAXITER |-> 500],
      [NATGRAD |-> TRUE, FIX_VAR |-> FALSE, M |-> 100, MAXITER |-> 10000] }

\* the Configs BayesBench_DeepGP._optimize is called with: the class Config with
\* or without the test-mode overrides, or a caller's Config
DeepConfigs ==
    { [NATGRAD |-> n, FIX_VAR |-> f, M |-> c[1], MAXITER |-> c[2]] :
        n \in BOOLEAN, f \in BOOLEAN,
        c \in {<<M, MAXITER>>, <<M_is_test, MAXITER_is_test>>} }

\* self.model.trainable_weights / model.trainable_tensors
trainable_weights(flags) == { p \in Params : flags[p] }

\* the variational parameters of the last layer
var_params == {"last.q_mu", "last.q_sqrt"}

\* set_trainable(param, False) for every param of params
set_not_trainable(flags, params) == [p \in Params |-> IF p \in params THEN FALSE ELSE flags[p]]

\* BayesBench_DeepGP._optimize before its loop: Adam's variables are read when
\* adam_step first runs
setup_deep(cfg, flags) ==
    IF cfg.NATGRAD
    THEN [trainable |-> set_not_trainable(flags, var_params), adam_vars |-> None,
          nat_vars |-> Some(var_params)]
    ELSE [trainable |-> flags, adam_vars |-> None, nat_vars |-> None]

\* BayesBench_ConditionalLatentDeepGP._optimize before its loop:
\* adam_opt.make_optimize_action builds Adam's minimize over the tensors that are
\* trainable at that moment, and is called before the natgrad branch
setup_latent(cfg, flags) ==
    LET adam == Some(trainable_weights(flags))
    IN  IF cfg.NATGRAD
        THEN [trainable |-> set_not_trainable(flags, var_params), adam_vars |-> adam,
              nat_vars |-> Some(var_params)]
        ELSE [trainable |-> flags, adam_vars |-> adam, nat_vars |-> None]

\* the model fit has built, at the call of _optimize
InitOptimize ==
    /\ DeepGPIdle
    /\ AdapterIdle
    /\ ExtIdle
    /\ \/ opt \in { [adapter |-> "deep", cfg |-> c] : c \in DeepConfigs }
       \/ opt \in { [adapter |-> "latent", cfg |-> c] : c \in LatentConfigs }
    /\ trainable = [p \in Params |->
                       IF p = "likelihood.variance" THEN ~opt.cfg.FIX_VAR ELSE TRUE]
    /\ adam_vars = None
    /\ nat_vars = None
    /\ pc = "start"
    /\ iter = 0
    /\ updated = [natgrad |-> {}, adam |-> {}]
    /\ steps = [natgrad |-> 0, adam |-> 0, monitor |-> 0]
    /\ ctx = [entered |-> 0, exited |-> 0, raised |-> "none"]

\* run(model, session, global_step, monitor_tasks, optimizer, iterations) of the
\* indexed-kernel script before optimizer.minimize: nothing is frozen and the
\* optimizer reads the trainable tensors when it is run
setup_run(cfg, flags) == [trainable |-> flags, adam_vars |-> None, nat_vars |-> None]

\* the loops that run inside "with mon.Monitor(...)" and call the monitor once
\* per iteration
has_monitor(adapter) == adapter \in {"latent", "run"}

\* the with statement is entered
with_enter(c) == [c EXCEPT !.entered = @ + 1]

\* the with statement is left: Monitor.__exit__ is called
with_exit(c) == [c EXCEPT !.exited = @ + 1]

\* _optimize (or run) up to its loop; where there is a monitor the with
\* statement is entered, and left at once if the loop has nothing to do
optimize_setup ==
    /\ pc = "start"
    /\ LET s == CASE opt.adapter = "deep" -> setup_deep(opt.cfg, trainable)
                  [] opt.adapter = "latent" -> setup_latent(opt.cfg, trainable)
                  [] OTHER -> setup_run(opt.cfg, trainable)
       IN  /\ trainable' = s.trainable
           /\ adam_vars' = s.adam_vars
           /\ nat_vars' = s.nat_vars
    /\ pc' = IF opt.cfg.MAXITER > 0 THEN "iteration" ELSE "done"
    /\ ctx' = IF has_monitor(opt.adapter)
              THEN IF opt.cfg.MAXITER > 0 THEN with_enter(ctx) ELSE with_exit(with_enter(ctx))
              ELSE ctx
    /\ UNCHANGED <<opt, iter, updated, steps, dgpVars, adapterVars, extVars>>

\* if natgrad_step is not None: natgrad_step()
natgrad_step ==
    /\ pc = "iteration"
    /\ nat_vars # None
    /\ updated' = [updated EXCEPT !.natgrad = The(nat_vars)]
    /\ steps' = [steps EXCEPT !.natgrad = @ + 1]
    /\ pc' = "adam"
    /\ UNCHANGED <<opt, trainable, adam_vars, nat_vars, iter, ctx, dgpVars, adapterVars,
                   extVars>>

\* the end of one pass of the loop body, one pass too many
next_iteration_inclusive ==
    /\ iter' = iter + 1
    /\ pc' = IF iter + 1 <= opt.cfg.MAXITER THEN "iteration" ELSE "done"

\* the end of one pass of the loop body
next_iteration ==
    /\ iter' = iter + 1
    /\ pc' = IF iter + 1 < opt.cfg.MAXITER THEN "iteration" ELSE "done"

\* adam_step(), and in BayesBench_DeepGP the end of the loop body
adam_step ==
    /\ \/ pc = "adam"
       \/ pc = "iteration" /\ nat_vars = None
    /\ LET over == IF adam_vars = None THEN trainable_weights(trainable)
                   ELSE The(adam_vars)
       IN  /\ adam_vars' = Some(over)
           /\ updated' = [updated EXCEPT !.adam = over]
    /\ steps' = [steps EXCEPT !.adam = @ + 1]
    /\ IF has_monitor(opt.adapter)
       THEN pc' = "monitor" /\ iter' = iter
       ELSE next_iteration
    /\ UNCHANGED <<opt, trainable, nat_vars, ctx, dgpVars, adapterVars, extVars>>

\* monitor(i) of BayesBench_ConditionalLatentDeepGP._optimize, the step callback
\* of run; after the last pass the with statement is left
monitor ==
    /\ pc = "monitor"
    /\ next_iteration
    /\ steps' = [steps EXCEPT !.monitor = @ + 1]
    /\ ctx' = IF pc' = "done" THEN with_exit(ctx) ELSE ctx
    /\ UNCHANGED <<opt, trainable, adam_vars, nat_vars, updated, dgpVars, adapterVars, extVars>>

NextOptimize ==
    \/ optimize_setup
    \/ natgrad_step
    \/ adam_step
    \/ monitor

SpecOptimize == InitOptimize /\ [][NextOptimize]_vars

\* iterations of the indexed-kernel script's config
iterations == 2000

\* run of the indexed-kernel script as a loop of this kind: Adam alone, nothing
\* frozen, iterations passes
RunConfigs ==
    { [NATGRAD |-> FALSE, FIX_VAR |-> FALSE, M |-> m, MAXITER |-> iterations] :
        m \in InducingCounts }

\* a step of the loop raises and nothing in the with statement is torn down
raise_step_leaking ==
    /\ pc \in {"iteration", "adam", "monitor"}
    /\ ctx' = [ctx EXCEPT !.raised = IF pc # "iteration" THEN pc
                                     ELSE IF nat_vars # None THEN "natgrad" ELSE "adam"]
    /\ pc' = "raised"
    /\ UNCHANGED <<opt, trainable, adam_vars, nat_vars, iter, updated, steps, dgpVars,
                   adapterVars, extVars>>

\* the step the loop stands at (natgrad_step(), adam_step() or the monitor call)
\* raises: the exception leaves the loop and, where there is one, the with
\* statement, and goes on to the caller
raise_step ==
    /\ pc \in {"iteration", "adam", "monitor"}
    /\ LET by == IF pc # "iteration" THEN pc
                 ELSE IF nat_vars # None THEN "natgrad" ELSE "adam"
           c  == IF has_monitor(opt.adapter) THEN with_exit(ctx) ELSE ctx
       IN  ctx' = [c EXCEPT !.raised = by]
    /\ pc' = "raised"
    /\ UNCHANGED <<opt, trainable, adam_vars, nat_vars, iter, updated, steps, dgpVars,
                   adapterVars, extVars>>

\* the loops that run under a Monitor, at the call of _optimize or of run
InitTeardown ==
    /\ DeepGPIdle
    /\ AdapterIdle
    /\ ExtIdle
    /\ \/ opt \in { [adapter |-> "latent", cfg |-> c] : c \in LatentConfigs }
       \/ opt \in { [adapter |-> "run", cfg |-> c] : c \in RunConfigs }
    /\ trainable = [p \in Params |-> TRUE]
    /\ adam_vars = None
    /\ nat_vars = None
    /\ pc = "start"
    /\ iter = 0
    /\ updated = [natgrad |-> {}, adam |-> {}]
    /\ steps = [natgrad |-> 0, adam |-> 0, monitor |-> 0]
    /\ ctx = [entered |-> 0, exited |-> 0, raised |-> "none"]

NextTeardown ==
    \/ NextOptimize
    \/ raise_step

SpecTeardown == InitTeardown /\ [][NextTeardown]_vars

---------------------------------------------------------------------------
\* init_inducing_points(X, num), the same function in both benchmark adapters.
\* An array is its rows in order and its number of columns; a row is a row of
\* the data, a row np.random.randn drew, or a centroid kmeans2 returned.

DataRow(v) == [kind |-> "data", v |-> v]

\* the arrays X of up to n rows
Arrays(n) ==
    { [rows |-> [i \in 1..k |-> DataRow(f[i])], dim |-> d] :
        k \in 0..n, d \in InputDims, f \in [1..n -> RowValues] }

\* X.shape
shape(A) == <<Len(A.rows), A.dim>>

\* np.random.randn(n, d)
randn(n, d) == [rows |-> [i \in 1..n |-> [kind |-> "noise", v |-> i]], dim |-> d]

\* np.concatenate([A, B], 0) of two arrays with the same number of columns
concatenate_rows(A, B) == [rows |-> A.rows \o B.rows, dim |-> A.dim]

\* kmeans2(X, num, minit='points')[0]: num centroids in the space of X
kmeans2(A, num) == [rows |-> [i \in 1..num |-> [kind |-> "centroid", v |-> i]], dim |-> A.dim]

\* the variant that clusters X also when it has exactly num rows
init_inducing_points_ge(X, num) ==
    IF shape(X)[1] >= num
    THEN kmeans2(X, num)
    ELSE concatenate_rows(X, randn(num - shape(X)[1], shape(X)[2]))

init_inducing_points(X, num) ==
    IF shape(X)[1] > num
    THEN kmeans2(X, num)
    ELSE concatenate_rows(X, randn(num - shape(X)[1], shape(X)[2]))

\* a call Z = init_inducing_points(X, num); nothing in it assigns to X
init_inducing_points_call(num) ==
    /\ ind' = [X |-> ind.X, num |-> num, Z |-> Some(init_inducing_points(ind.X, num))]
    /\ UNCHANGED <<dgpVars, adapterVars, optVars, latentVars, encVars, runs, dispVars, restVars>>

InitInducing ==
    /\ DeepGPIdle
    /\ AdapterIdle
    /\ OptimizeIdle
    /\ LatentIdle
    /\ EncoderIdle
    /\ IndexKernelIdle
    /\ DispatchIdle
    /\ ConvIdle
    /\ MainIdle
    /\ ind \in { [X |-> A, num |-> 1, Z |-> None] : A \in Arrays(MaxRows) }

NextInducing == \E num \in 1..MaxNum : init_inducing_points_call(num)

SpecInducing == InitInducing /\ [][NextInducing]_vars

---------------------------------------------------------------------------
\* The models the two benchmark adapters build, and predict.  A GP layer is
\* the number of columns it takes, the shape of its inducing points (None
\* where the caller assigns them later) and the number of columns it returns.

\* training inputs X of num_data rows and x_dim columns
TrainingInputs(num_data, x_dim) ==
    [rows |-> [i \in 1..num_data |-> DataRow(i)], dim |-> x_dim]

\* build_deep_gp(input_dim, num_inducing) of bayesbench_deepgp.py
build_deep_gp(input_dim, num_inducing) ==
    LET layer_dims == <<input_dim, input_dim, 1>>
    IN  [layers |-> << [input_dim |-> layer_dims[1], Z |-> None, num_latents |-> layer_dims[2]],
                       [input_dim |-> layer_dims[2], Z |-> None, num_latents |-> layer_dims[3]] >>,
         num_inducing |-> num_inducing]

\* the class Config local to BayesBench_ConditionalLatentDeepGP.fit, for a
\* two-dimensional Y of y_cols columns
LatentConfig(is_test, X, y_cols) ==
    LET X_dim == shape(X)[2]
        D_in  == X_dim + LATENT_DIM
    IN  [NATGRAD |-> TRUE, FIX_VAR |-> FALSE, LATENT_DIM |-> LATENT_DIM,
         X_dim |-> X_dim, Y_dim |-> y_cols, D_in |-> D_in,
         OUTPUT_DIMS |-> <<D_in, y_cols>>,
         M |-> IF is_test THEN 5 ELSE 100,
         MAXITER |-> IF is_test THEN 500 ELSE 10000,
         MB |-> IF shape(X)[1] > 1000 THEN Some(MB) ELSE None]

\* np.concatenate([Z1, np.random.randn(Z1.shape[0], LATENT_DIM)], 1), as a shape
concatenate_columns(Z, cols) == <<shape(Z)[1], shape(Z)[2] + cols>>

\* the encoder and the two layers fit builds before it builds the model
latent_layers(cfg, X) ==
    LET Z1 == concatenate_columns(init_inducing_points(X, cfg.M), cfg.LATENT_DIM)
        Z2 == Z1
    IN  [encoder |-> [input_dim |-> cfg.X_dim + cfg.Y_dim, latent_dim |-> cfg.LATENT_DIM,
                      network_dims |-> <<50, 50>>],
         layers |-> << [input_dim |-> cfg.D_in, Z |-> Some(Z1), num_latents |-> cfg.OUTPUT_DIMS[1]],
                       [input_dim |-> cfg.D_in, Z |-> Some(Z2), num_latents |-> cfg.OUTPUT_DIMS[1]] >>]

\* what gpflux.ConditionalLatentDeepGP and the training do with targets that
\* do not fit the inputs is not this repository's code: they may fail when the
\* model is built ("model"), fail in training ("optimize") or run through
ExternalOutcomes(num_data, y_rows, y_cols) ==
    IF y_rows = num_data /\ y_cols = Some(1) THEN {"none"} ELSE {"none", "model", "optimize"}

\* the body of BayesBench_ConditionalLatentDeepGP.fit: the exception it ends
\* with (None: it returns), the object as it leaves it, what it has built by
\* then, and whether training ran through
latent_fit_run(me, X, y_rows, y_cols, Xt, external) ==
    LET me1 == [me EXCEPT !.Xt = Xt, !.Yt = Xt]
    IN  IF y_cols = None
        THEN [raised |-> Some("IndexError"), me |-> me1, built |-> <<>>, trained |-> FALSE]
        ELSE LET cfg   == LatentConfig(me.is_test, X, The(y_cols))
                 parts == latent_layers(cfg, X)
                 model == [encoder |-> parts.encoder, layers |-> parts.layers,
                           batch_size |-> cfg.MB]
                 me2   == [me1 EXCEPT !.model = Some(model)]
             IN  IF external = "model"
                 THEN [raised |-> Some("Error"), me |-> me1,
                       built |-> <<"encoder", "layer1", "layer2">>, trained |-> FALSE]
                 ELSE IF external = "optimize"
                 THEN [raised |-> Some("Error"), me |-> me2,
                       built |-> <<"encoder", "layer1", "layer2", "model">>, trained |-> FALSE]
                 ELSE [raised |-> None, me |-> me2,
                       built |-> <<"encoder", "layer1", "layer2", "model">>, trained |-> TRUE]

\* BayesBench_ConditionalLatentDeepGP.fit(X, Y, Xt, Yt)
latent_fit(num_data, x_dim, y_rows, y_cols, Xt, external) ==
    LET run == latent_fit_run(latent, TrainingInputs(num_data, x_dim), y_rows, y_cols,
                              Xt, external)
    IN  /\ latent' = run.me
        /\ lastFit' = [op |-> "fit", adapter |-> "latent", num_data |-> num_data,
                       x_dim |-> x_dim, y_rows |-> y_rows, y_cols |-> y_cols,
                       raised |-> run.raised, built |-> run.built, trained |-> run.trained]
        /\ UNCHANGED <<built, ind, encVars, runs, dispVars, dgpVars, adapterVars, optVars, restVars>>

\* model.predict_y(X) and model(X) on n rows: a mean and a variance, each of
\* n rows and as many columns as the last layer returns
predict_y(model, n) ==
    LET last == model.layers[Len(model.layers)]
    IN  [mean |-> <<n, last.num_latents>>, variance |-> <<n, last.num_latents>>]

\* BayesBench_ConditionalLatentDeepGP.predict(X) after a fit that set self.model
latent_predict(n) ==
    /\ latent.model # None
    /\ lastFit' = [op |-> "predict", adapter |-> "latent", n |-> n,
                   result |-> predict_y(The(latent.model), n)]
    /\ UNCHANGED <<latent, built, ind, encVars, runs, dispVars, dgpVars, adapterVars, optVars, restVars>>

\* model = build_deep_gp(X_dim, Config.M) in BayesBench_DeepGP.fit
deep_build(x_dim, num_inducing) ==
    /\ built' = Some(build_deep_gp(x_dim, num_inducing))
    /\ lastFit' = [op |-> "build_deep_gp", adapter |-> "deep", x_dim |-> x_dim]
    /\ UNCHANGED <<latent, ind, encVars, runs, dispVars, dgpVars, adapterVars, optVars, restVars>>

\* BayesBench_DeepGP.predict(X): self.model(X)
deep_predict(n) ==
    /\ built # None
    /\ lastFit' = [op |-> "predict", adapter |-> "deep", n |-> n,
                   result |-> predict_y(The(built), n)]
    /\ UNCHANGED <<latent, built, ind, encVars, runs, dispVars, dgpVars, adapterVars, optVars, restVars>>

\* a BayesBench_ConditionalLatentDeepGP object after __init__(is_test)
InitLatent ==
    /\ DeepGPIdle
    /\ AdapterIdle
    /\ OptimizeIdle
    /\ InducingIdle
    /\ EncoderIdle
    /\ IndexKernelIdle
    /\ DispatchIdle
    /\ ConvIdle
    /\ MainIdle
    /\ latent \in { [is_test |-> t, Xt |-> None, Yt |-> None, model |-> None] : t \in BOOLEAN }
    /\ built = None
    /\ lastFit = [op |-> "none"]

NextLatent ==
    \/ \E num_data \in LatentRowCounts, x_dim \in InputDims, y_rows \in LatentRowCounts,
          y_cols \in YColumns, Xt \in {Some(h) : h \in HeldOut} :
          \E external \in ExternalOutcomes(num_data, y_rows, y_cols) :
              latent_fit(num_data, x_dim, y_rows, y_cols, Xt, external)
    \/ \E n \in PredictRows : latent_predict(n)
    \/ \E x_dim \in InputDims : deep_build(x_dim, Config.M)
    \/ \E n \in PredictRows : deep_predict(n)

SpecLatent == InitLatent /\ [][NextLatent]_vars

---------------------------------------------------------------------------
\* The encoders of the latent-variable layer.  Arrays are their shapes.

\* the shapes of the arrays handed in as mean: two-dimensional, or one-dimensional
MeanShapes ==
    { <<r, c>> : r \in 1..MaxNumData, c \in 1..MaxLatentDim } \cup { <<r>> : r \in 1..MaxNumData }

\* DirectlyParameterized.__init__ that compares the number of rows only
DirectlyParameterized_init_rows_only(latent_dim, num_data, mean) ==
    LET mean1 == IF mean = None THEN <<num_data, latent_dim>> ELSE The(mean)
    IN  IF mean1[1] # num_data
        THEN [kind |-> "direct", raised |-> Some("ValueError"), latent_dim |-> latent_dim,
              num_data |-> num_data, mean_arg |-> mean]
        ELSE [kind |-> "direct", raised |-> None, latent_dim |-> latent_dim,
              num_data |-> num_data, mean_arg |-> mean,
              mean |-> mean1, std |-> <<num_data, latent_dim>>]

\* DirectlyParameterized.__init__(latent_dim, num_data, mean): the object, or
\* the error raised
DirectlyParameterized_init(latent_dim, num_data, mean) ==
    LET mean1 == IF mean = None THEN <<num_data, latent_dim>> ELSE The(mean)
    IN  IF mean1 # <<num_data, latent_dim>>
        THEN [kind |-> "direct", raised |-> Some("ValueError"), latent_dim |-> latent_dim,
              num_data |-> num_data, mean_arg |-> mean]
        ELSE [kind |-> "direct", raised |-> None, latent_dim |-> latent_dim,
              num_data |-> num_data, mean_arg |-> mean,
              mean |-> mean1, std |-> <<num_data, latent_dim>>]

\* RecognitionNetwork._build_network: the shapes of Ws and of bs
build_network(input_dim, network_dims, latent_dim) ==
    LET dims == <<input_dim>> \o network_dims \o <<latent_dim * 2>>
    IN  [Ws |-> [i \in 1..(Len(dims) - 1) |-> <<dims[i], dims[i + 1]>>],
         bs |-> [i \in 1..(Len(dims) - 1) |-> <<dims[i + 1]>>]]

\* RecognitionNetwork.__init__(latent_dim, input_dim, network_dims)
RecognitionNetwork_init(latent_dim, input_dim, network_dims) ==
    LET net == build_network(input_dim, network_dims, latent_dim)
    IN  [kind |-> "network", raised |-> None, latent_dim |-> latent_dim,
         input_dim |-> input_dim, network_dims |-> network_dims, Ws |-> net.Ws, bs |-> net.bs]

\* tf.matmul(Z, W) + b on shapes; None where the inner dimensions differ
matmul_add(Z, W, b) ==
    IF Z = None \/ The(Z)[2] # W[1] THEN None ELSE Some(<<The(Z)[1], W[2]>>)

\* the loop of RecognitionNetwork.__call__ over the first i layers
RECURSIVE network_loop(_, _, _)
network_loop(e, Z, i) ==
    IF i = 0 THEN Some(Z) ELSE matmul_add(network_loop(e, Z, i - 1), e.Ws[i], e.bs[i])

\* RecognitionNetwork.__call__(Z) that returns the halves unsplit
RecognitionNetwork_call_unsplit(e, Z) ==
    LET out == network_loop(e, Z, Len(e.Ws))
    IN  IF out = None
        THEN [raised |-> Some("InvalidArgumentError")]
        ELSE [raised |-> None, mean |-> The(out), scale |-> The(out)]

\* RecognitionNetwork.__call__(Z): q_mu and q_sqrt are the two halves of the
\* columns of the last layer's output
RecognitionNetwork_call(e, Z) ==
    LET out == network_loop(e, Z, Len(e.Ws))
    IN  IF out = None
        THEN [raised |-> Some("InvalidArgumentError")]
        ELSE [raised |-> None, mean |-> <<The(out)[1], The(out)[2] \div 2>>,
              scale |-> <<The(out)[1], The(out)[2] \div 2>>]

\* DirectlyParameterized.__call__(Z): the two parameters, whatever Z is
DirectlyParameterized_call(e, Z) ==
    [raised |-> None, mean |-> e.mean, scale |-> e.std]

\* enc = DirectlyParameterized(latent_dim, num_data, mean)
construct_direct(latent_dim, num_data, mean) ==
    /\ enc' = DirectlyParameterized_init(latent_dim, num_data, mean)
    /\ encOut' = [op |-> "none"]
    /\ UNCHANGED <<dgpVars, adapterVars, optVars, latentVars, ind, runs, dispVars, restVars>>

\* enc = RecognitionNetwork(latent_dim, input_dim, network_dims)
construct_network(latent_dim, input_dim, network_dims) ==
    /\ enc' = RecognitionNetwork_init(latent_dim, input_dim, network_dims)
    /\ encOut' = [op |-> "none"]
    /\ UNCHANGED <<dgpVars, adapterVars, optVars, latentVars, ind, runs, dispVars, restVars>>

\* enc(Z) for a batch Z of N rows and cols columns, on a constructed encoder
encode(N, cols) ==
    /\ enc.kind # "none"
    /\ enc.raised = None
    /\ encOut' = [op |-> "encode", Z |-> <<N, cols>>,
                  result |-> IF enc.kind = "network"
                             THEN RecognitionNetwork_call(enc, <<N, cols>>)
                             ELSE DirectlyParameterized_call(enc, <<N, cols>>)]
    /\ UNCHANGED <<enc, dgpVars, adapterVars, optVars, latentVars, ind, runs, dispVars, restVars>>

InitEncoder ==
    /\ DeepGPIdle
    /\ AdapterIdle
    /\ OptimizeIdle
    /\ LatentIdle
    /\ InducingIdle
    /\ EncoderIdle
    /\ IndexKernelIdle
    /\ DispatchIdle
    /\ ConvIdle
    /\ MainIdle

NextEncoder ==
    \/ \E latent_dim \in 1..MaxLatentDim, num_data \in 1..MaxNumData,
          mean \in {None} \cup {Some(m) : m \in MeanShapes} :
          construct_direct(latent_dim, num_data, mean)
    \/ \E latent_dim \in 1..MaxLatentDim, input_dim \in InputDims, network_dims \in NetworkDims :
          construct_network(latent_dim, input_dim, network_dims)
    \/ \E N \in 0..MaxBatch, cols \in InputDims : encode(N, cols)

SpecEncoder == InitEncoder /\ [][NextEncoder]_vars

---------------------------------------------------------------------------
\* The indexed-kernel experiment script: experiment_name and setup_model

\* the configurations of one run (sacred's config, with its overrides)
Configs ==
    [dataset : Datasets, init_patches : InitPatches, base_kern : BaseKerns,
     adam_lr : AdamLrs, M : InducingCounts, minibatch_size : MinibatchSizes,
     patch_size : PatchSizes]

\* the string numpy makes of an element of a mixed array (astype(str))
astype_str(x) ==
    IF "int" \in DOMAIN x THEN ToString(x.int)
    ELSE IF "float" \in DOMAIN x THEN x.float
    ELSE x.str

\* "_".join(strings)
RECURSIVE join(_)
join(strings) ==
    IF Len(strings) = 0 THEN ""
    ELSE IF Len(strings) = 1 THEN strings[1]
    ELSE strings[1] \o "_" \o join(Tail(strings))

\* the array args of experiment_name
name_args(cfg) ==
    << [str |-> cfg.dataset],
       [str |-> "init_patches"], [str |-> cfg.init_patches],
       [str |-> "kern"], [str |-> cfg.base_kern],
       [str |-> "adam"], cfg.adam_lr,
       [str |-> "M"], [int |-> cfg.M],
       [str |-> "minibatch_size"], [int |-> cfg.minibatch_size],
       [str |-> "patch"], [int |-> cfg.patch_size[1]] >>

\* experiment_name()
experiment_name(cfg) ==
    LET args == name_args(cfg)
    IN  join([i \in 1..Len(args) |-> astype_str(args[i])])

\* int(X.shape[1] ** .5)
int_sqrt(n) == CHOOSE h \in 0..n : h * h <= n /\ n < (h + 1) * (h + 1)

\* X[:100] of an array of n rows: the rows it keeps
first_rows(n, k) == 1..(IF n < k THEN n ELSE k)

\* the patches initializer with the two strategies swapped
patches_initializer_swapped(init_patches, n) ==
    IF init_patches = "random"
    THEN [kind |-> "NormalInitializer"]
    ELSE [kind |-> "PatchSamplerInitializer", images |-> first_rows(n, 100),
          unique |-> (init_patches = "patches")]

\* the patches initializer setup_model builds for X of n rows
patches_initializer(init_patches, n) ==
    IF init_patches = "random"
    THEN [kind |-> "NormalInitializer"]
    ELSE [kind |-> "PatchSamplerInitializer", images |-> first_rows(n, 100),
          unique |-> (init_patches = "patches-unique")]

\* setup_model(X, Y) for X of n rows and cols columns
setup_model(cfg, n, cols) ==
    LET H == int_sqrt(cols)
    IN  [likelihood  |-> IF cfg.dataset = "01" THEN "Bernoulli" ELSE "SoftMax",
         num_filters |-> IF cfg.dataset = "01" THEN 1 ELSE 10,
         image_shape |-> <<H, H>>,
         M           |-> cfg.M,
         patch_size  |-> cfg.patch_size,
         patches     |-> patches_initializer(cfg.init_patches, n),
         batch_size  |-> cfg.minibatch_size]

\* one run of the script with the configuration cfg: the model it sets up and
\* the name its checkpoints and logs go under
run_script(cfg) ==
    /\ runs' = [prev |-> runs.last,
                last |-> Some([cfg |-> cfg, args |-> name_args(cfg),
                               name |-> experiment_name(cfg),
                               model |-> setup_model(cfg, TrainingImages(cfg.dataset), 784)])]
    /\ UNCHANGED <<dgpVars, adapterVars, optVars, latentVars, ind, encVars, dispVars, restVars>>

InitIndexKernel ==
    /\ DeepGPIdle
    /\ AdapterIdle
    /\ OptimizeIdle
    /\ LatentIdle
    /\ InducingIdle
    /\ EncoderIdle
    /\ IndexKernelIdle
    /\ DispatchIdle
    /\ ConvIdle
    /\ MainIdle

NextIndexKernel == \E cfg \in Configs : run_script(cfg)

SpecIndexKernel == InitIndexKernel /\ [][NextIndexKernel]_vars

---------------------------------------------------------------------------
\* main of the indexed-kernel experiment script, statement by statement

\* SUCCESS
SUCCESS == 0

\* the statements of main with the return after trace_run taken out
main_body_to_the_end ==
    << "data", "setup_model", "compile", "enquire_session", "create_global_step",
       "trace_run", "restore_session", "setup_optimizer", "setup_monitor_tasks",
       "run", "finish", "return SUCCESS" >>

\* the statements of main, in the order of the source (the prints left out)
main_body ==
    << "data", "setup_model", "compile", "enquire_session", "create_global_step",
       "trace_run", "return 0", "restore_session", "setup_optimizer",
       "setup_monitor_tasks", "run", "finish", "return SUCCESS" >>

\* name of trace_run: f"M_{M}_N_{minibatch_size}_pyfunc"
trace_name(cfg) ==
    "M_" \o ToString(cfg.M) \o "_N_" \o ToString(cfg.minibatch_size) \o "_pyfunc"

\* trace_run(model, sess): the files it writes, in order
trace_run(cfg) ==
    << "trace_likelihood_" \o trace_name(cfg) \o ".json",
       "trace_adam_" \o trace_name(cfg) \o ".json" >>

\* finish: the file _save writes
save_file(cfg) == experiment_name(cfg) \o ".gpflow"

\* the script is started with the configuration cfg
main_start(cfg) ==
    /\ mainRun.pc = 0
    /\ mainRun' = [mainRun EXCEPT !.cfg = Some(cfg), !.pc = 1]
    /\ UNCHANGED <<dgpVars, adapterVars, optVars, latentVars, ind, encVars, runs, dispVars,
                   convVars>>

\* the next statement of main
main_step ==
    /\ mainRun.pc \in 1..Len(main_body)
    /\ mainRun.returned = None
    /\ LET stmt == main_body[mainRun.pc]
           cfg  == The(mainRun.cfg)
       IN  mainRun' =
             CASE stmt = "return 0" -> [mainRun EXCEPT !.returned = Some(0)]
               [] stmt = "return SUCCESS" -> [mainRun EXCEPT !.returned = Some(SUCCESS)]
               [] stmt = "setup_model" ->
                    [mainRun EXCEPT !.pc = @ + 1, !.steps = Append(@, stmt),
                       !.model = Some(setup_model(cfg, TrainingImages(cfg.dataset), 784))]
               [] stmt = "trace_run" ->
                    [mainRun EXCEPT !.pc = @ + 1, !.steps = Append(@, stmt),
                       !.files = @ \o trace_run(cfg)]
               [] stmt = "finish" ->
                    [mainRun EXCEPT !.pc = @ + 1, !.steps = Append(@, stmt),
                       !.files = Append(@, save_file(cfg))]
               [] OTHER -> [mainRun EXCEPT !.pc = @ + 1, !.steps = Append(@, stmt)]
    /\ UNCHANGED <<dgpVars, adapterVars, optVars, latentVars, ind, encVars, runs, dispVars,
                   convVars>>

InitMain ==
    /\ DeepGPIdle
    /\ AdapterIdle
    /\ OptimizeIdle
    /\ ExtIdle

NextMain ==
    \/ \E cfg \in Configs : main_start(cfg)
    \/ main_step

SpecMain == InitMain /\ [][NextMain]_vars

\* the script, once started, keeps executing its statements
SpecMainFair == SpecMain /\ WF_vars(main_step)

---------------------------------------------------------------------------
\* The experiment runner: the entry points basic_example.py and
\* run_experiments.py, and the dispatcher run_multiple they call.  The
\* dispatcher's source is not part of the files at hand; it is modelled as the
\* specification describes it: as many experiments at once as there are
\* devices, the next queued specification started when a device is free, each
\* experiment in a subprocess of its own, its results in a subdirectory of the
\* output path named after the experiment and its position in the list.

\* experiments_lists of the two entry points
experiments_lists(example) ==
    IF example = "basic_example"
    THEN << [name |-> "example_experiment", creator |-> "BasicCNN", dataset |-> "mnist",
             config |-> "KerasConfig", learner |-> "KerasClassificator"],
            [name |-> "example_experiment", creator |-> "ShallowConvGP", dataset |-> "mnist",
             config |-> "TickConvGPConfig", learner |-> "GPClassificator"] >>
    ELSE << [name |-> "example_experiment", creator |-> "ShallowConvGP",
             dataset |-> "fashion_mnist", config |-> "TickConvGPConfig",
             learner |-> "GPClassificator"] >>

\* the list with every element repeated in place: [a, a, b, b] for [a, b] * 2
list_repeat_elementwise(list, n) ==
    [i \in 1..(Len(list) * n) |-> list[((i - 1) \div n) + 1]]

\* Python's list * n
list_repeat(list, n) ==
    [i \in 1..(Len(list) * n) |-> list[((i - 1) % Len(list)) + 1]]

\* the lists of distinct device names --gpus can carry, in ascending order
GpuLists ==
    { g \in UNION { [1..n -> 1..MaxGpus] : n \in 1..MaxGpus } :
        \A i, j \in 1..Len(g) : i < j => g[i] < g[j] }

\* the subdirectory run_multiple writes the results of position i to, without
\* the position
output_location_by_name(path, name, i) == path \o "/" \o name

\* the subdirectory run_multiple writes the results of position i to
output_location(path, name, i) == path \o "/" \o name \o "_" \o ToString(i)

\* the devices no running experiment holds
free_devices ==
    { dargs.gpus[j] : j \in 1..Len(dargs.gpus) } \
        { The(exps[i].gpu) : i \in { k \in 1..Len(exps) : exps[k].status = "running" } }

\* main(): parse the command line, build the list, call run_multiple with it
main(example, repetitions, gpus, path) ==
    LET list == list_repeat(experiments_lists(example), repetitions)
    IN  /\ dargs.example = "none"
        /\ dargs' = [example |-> example, repetitions |-> repetitions, gpus |-> gpus,
                     path |-> path]
        /\ handed' = list
        /\ queue' = [i \in 1..Len(list) |-> i]
        /\ exps' = [i \in 1..Len(list) |->
                       [status |-> "queued", gpu |-> None, starts |-> 0, location |-> None]]
        /\ startOrder' = <<>>
        /\ UNCHANGED <<dgpVars, adapterVars, optVars, latentVars, ind, encVars, runs, restVars>>

\* the device to start the head of the queue on: any device that is free
startable_any == { dargs.gpus[j] : j \in 1..Len(dargs.gpus) }

startable == free_devices

\* run_multiple starts the head of the queue in a subprocess on the device d
start(d) ==
    /\ dargs.example # "none"
    /\ queue # <<>>
    /\ d \in startable
    /\ LET i == Head(queue)
       IN  /\ exps' = [exps EXCEPT ![i] =
                          [status |-> "running", gpu |-> Some(d), starts |-> @.starts + 1,
                           location |-> Some(output_location(dargs.path, handed[i].name, i))]]
           /\ startOrder' = Append(startOrder, i)
    /\ queue' = Tail(queue)
    /\ UNCHANGED <<dargs, handed, dgpVars, adapterVars, optVars, latentVars, ind, encVars, runs, restVars>>

\* the subprocess of position i ends: it completed, or it failed and is
\* reported failed; either way only its own entry changes and its device is free
finish(i, outcome) ==
    /\ i \in 1..Len(exps)
    /\ exps[i].status = "running"
    /\ exps' = [exps EXCEPT ![i] = [@ EXCEPT !.status = outcome, !.gpu = None]]
    /\ UNCHANGED <<dargs, handed, queue, startOrder,
                   dgpVars, adapterVars, optVars, latentVars, ind, encVars, runs, restVars>>

InitDispatch ==
    /\ DeepGPIdle
    /\ AdapterIdle
    /\ OptimizeIdle
    /\ ExtIdle

NextDispatch ==
    \/ \E example \in {"basic_example", "run_experiments"}, repetitions \in 0..MaxRepetitions,
          gpus \in GpuLists, path \in Paths : main(example, repetitions, gpus, path)
    \/ \E d \in 1..MaxGpus : start(d)
    \/ \E i \in 1..Len(exps) : finish(i, "completed")
    \/ \E i \in 1..Len(exps) : finish(i, "failed")

SpecDispatch == InitDispatch /\ [][NextDispatch]_vars

\* the dispatcher starts the next specification whenever a device is free, and
\* every subprocess ends
SpecDispatchFair == SpecDispatch /\ WF_vars(NextDispatch)

---------------------------------------------------------------------------
\* The convolutional kernel over image patches and its tests.  The kernel's
\* source is not part of the files at hand; it is modelled as the
\* specification describes it: every patch of the patch shape that a
\* stride-1 sliding window without padding cuts out of the image.

\* the top-left corners of the patches of a W x H image, patches over-running
\* the image border included (a padded window)
patch_positions_padded(W, H, w, h) ==
    { <<x, y>> : x \in 0..(W - 1), y \in 0..(H - 1) }

\* the top-left corners of the w x h patches that lie inside a W x H image
patch_positions(W, H, w, h) ==
    { <<x, y>> : x \in 0..(W - w), y \in 0..(H - h) }

\* the pixels of one w x h patch, relative to its corner
patch_pixels(w, h) == { <<dx, dy>> : dx \in 0..(w - 1), dy \in 0..(h - 1) }

\* ConvKernel(ImageRBF(image_shape=[W, H], patch_shape=[w, h])): the bookkeeping
\* the kernel exposes
ConvKernel(W, H, w, h) ==
    LET positions == patch_positions(W, H, w, h)
    IN  [kind |-> "ConvKernel", image_shape |-> <<W, H>>, patch_shape |-> <<w, h>>,
         Wout |-> Cardinality({ p[1] : p \in positions }),
         Hout |-> Cardinality({ p[2] : p \in positions }),
         num_patches |-> Cardinality(positions),
         patch_len |-> Cardinality(patch_pixels(w, h))]

\* the fixture conv_kernel of the tests
conv_kernel == ConvKernel(Data_W, Data_H, Data_w, Data_h)

\* a kernel constructed for an image and a patch that fits into it
construct_conv(W, H, w, h) ==
    /\ conv' = ConvKernel(W, H, w, h)
    /\ convTest' = [test |-> "none"]
    /\ UNCHANGED <<dgpVars, adapterVars, optVars, latentVars, ind, encVars, runs, dispVars,
                   mainRun>>

\* test_num_outputs(conv_kernel)
test_num_outputs ==
    LET desired  == 1 * (Data_W - Data_w + 1) * (Data_H - Data_h + 1)
        actual_1 == conv_kernel.num_patches
        actual_2 == conv_kernel.Hout * conv_kernel.Wout
    IN  /\ conv' = conv_kernel
        /\ convTest' = [test |-> "test_num_outputs", desired |-> desired,
                        actual |-> <<actual_1, actual_2>>,
                        passed |-> (desired = actual_1 /\ desired = actual_2)]
        /\ UNCHANGED <<dgpVars, adapterVars, optVars, latentVars, ind, encVars, runs,
                       dispVars, mainRun>>

\* test_patch_len(conv_kernel)
test_patch_len ==
    LET desired == Data_w * Data_h
        actual  == conv_kernel.patch_len
    IN  /\ conv' = conv_kernel
        /\ convTest' = [test |-> "test_patch_len", desired |-> desired,
                        actual |-> <<actual>>, passed |-> (desired = actual)]
        /\ UNCHANGED <<dgpVars, adapterVars, optVars, latentVars, ind, encVars, runs,
                       dispVars, mainRun>>

InitConv ==
    /\ DeepGPIdle
    /\ AdapterIdle
    /\ OptimizeIdle
    /\ ExtIdle

NextConv ==
    \/ \E W \in 1..MaxImage, H \in 1..MaxImage :
          \E w \in 1..W, h \in 1..H : construct_conv(W, H, w, h)
    \/ test_num_outputs
    \/ test_patch_len

SpecConv == InitConv /\ [][NextConv]_vars

---------------------------------------------------------------------------
\* Properties of the modular Deep GP core

NLayers == Len(f_layers)

\* the num_data values that are defined: the argument's and the layers'
DefinedNumData ==
    num_data_arg \cup UNION { getattr_num_data(f_layers[i]) : i \in 1..NLayers }

\* C1: construction raises ValueError exactly when two defined num_data values
\* (argument, layers) differ or none is defined; a layer without num_data (no
\* attribute, or None) never makes it raise, wherever it is in the list.
C1_RaisesExactlyWhenInconsistentOrUndetermined ==
    dgp.status # "new" =>
        ((dgp.status = "ValueError") <=> (Cardinality(DefinedNumData) # 1))

\* two layers disagree around a layer that has no num_data attribute: ValueError;
C1_Witness ==
    /\ dgp.status = "ValueError"
    /\ NLayers = 3
    /\ num_data_arg = None
    /\ ~f_layers[2].has_num_data
    /\ getattr_num_data(f_layers[1]) = Some(1)
    /\ getattr_num_data(f_layers[3]) = Some(2)

\* the first layer of the list that defines num_data
FirstDefining ==
    CHOOSE i \in 1..NLayers :
        /\ getattr_num_data(f_layers[i]) # None
        /\ \A j \in 1..(i - 1) : getattr_num_data(f_layers[j]) = None

\* C2: after a successful construction self.num_data is the argument if one was
\* given, else the num_data of the first layer that defines one, and every layer
\* that defines num_data carries that value.
C2_StoredNumData ==
    dgp.status = "ready" =>
        /\ dgp.num_data # None
        /\ num_data_arg # None => dgp.num_data = num_data_arg
        /\ num_data_arg = None =>
               dgp.num_data = getattr_num_data(f_layers[FirstDefining])
        /\ \A i \in 1..NLayers :
               getattr_num_data(f_layers[i]) \in {None, dgp.num_data}

\* no argument; the first layer has no num_data, the second seeds it, the third agrees
C2_Witness ==
    /\ dgp.status = "ready"
    /\ num_data_arg = None
    /\ NLayers = 3
    /\ getattr_num_data(f_layers[1]) = None
    /\ getattr_num_data(f_layers[2]) = Some(2)
    /\ getattr_num_data(f_layers[3]) = Some(2)
    /\ dgp.num_data = Some(2)

\* the operations that run _evaluate_deep_gp
Evaluating == {"predict_f", "as_training_model", "as_prediction_model", "elbo"}

\* C3: _evaluate_deep_gp calls every layer once, in list order, each on the output
\* of the one before (the first on the inputs); a LayerWithObservations gets
\* observations = [inputs, targets] (the original inputs) when there are targets
\* and None when there are none; any other layer gets no observations argument.
C3_LayersInOrderWithObservations ==
    lastOp.op \in Evaluating =>
        /\ Len(lastOp.calls) = NLayers
        /\ \A i \in 1..NLayers :
               LET c == lastOp.calls[i]
               IN  /\ c.layer = i
                   /\ c.features = [src |-> The(lastOp.inputs).src,
                                    path |-> [j \in 1..(i - 1) |-> j]]
                   /\ c.obs_passed = f_layers[i].with_observations
                   /\ c.obs_passed /\ lastOp.targets # None =>
                          c.observations =
                              Some(<<The(lastOp.inputs), The(lastOp.targets)>>)
                   /\ c.obs_passed /\ lastOp.targets = None => c.observations = None

\* an evaluation with targets in which a LayerWithObservations comes third, after
\* a layer that is none
C3_Witness ==
    /\ lastOp.op = "elbo"
    /\ NLayers = 3
    /\ ~f_layers[2].with_observations
    /\ f_layers[3].with_observations
    /\ lastOp.calls[3].observations # None

\* the sum of the losses of layers 1..n, layer by layer
RECURSIVE LossTotal(_, _)
LossTotal(ls, n) ==
    IF n = 0 THEN 0 ELSE LossTotal(ls, n - 1) + reduce_sum(ls[n])

\* C4: elbo((X, Y)) runs the function layers and then the likelihood layer once,
\* with targets Y and training=True, and returns minus the sum of all losses of
\* all function layers and of the likelihood layer, times num_data.
C4_ElboSumsEveryLoss ==
    lastOp.op = "elbo" =>
        /\ Len(lastOp.calls) = NLayers
        /\ \A i \in 1..NLayers : /\ lastOp.calls[i].layer = i
                                  /\ lastOp.calls[i].training = Some(TRUE)
        /\ Len(lastOp.lik_calls) = 1
        /\ lastOp.lik_calls[1].targets = lastOp.targets
        /\ lastOp.lik_calls[1].training = Some(TRUE)
        /\ lastOp.lik_calls[1].f_outputs =
               [src |-> The(lastOp.inputs).src, path |-> [j \in 1..NLayers |-> j]]
        /\ lastOp.result =
               Some((0 - LossTotal(lastOp.losses, NLayers + 1)) * The(dgp.num_data))

\* an elbo in which only the likelihood layer recorded losses, num_data = 2
C4_Witness ==
    /\ lastOp.op = "elbo"
    /\ NLayers = 2
    /\ dgp.num_data = Some(2)
    /\ lastOp.losses[3] # <<>>
    /\ lastOp.losses[1] = <<>>
    /\ lastOp.losses[2] = <<>>
    /\ lastOp.result = Some(0 - 6)

\* C5: sample_dgp calls sample() once on every layer, in layer order; a sample
\* function composes the draws of its own sample_dgp call in layer order on any
\* inputs and never calls sample() again, so all its calls use the same draws;
\* two sample_dgp calls draw separately.
C5_SampleDrawsOnceUpFront ==
    /\ \A i \in 1..NLayers : sample_calls[i] = Len(samples)
    /\ lastOp.op = "sample_dgp" =>
           lastOp.sampled = [i \in 1..NLayers |-> i]
    /\ lastOp.op = "sample_call" =>
           /\ lastOp.sampled = <<>>
           /\ lastOp.result =
                  Some([src |-> The(lastOp.inputs).src,
                        path |-> [i \in 1..NLayers |-> <<i, The(lastOp.sample)>>]])
    /\ \A k \in 1..Len(samples) :
           samples[k] = [i \in 1..NLayers |-> <<i, k>>]

\* the first sample function called after a second sample_dgp has drawn
C5_Witness ==
    /\ lastOp.op = "sample_call"
    /\ lastOp.sample = Some(1)
    /\ Len(samples) = 2
    /\ NLayers = 3

\* C6: in the prediction view (as_prediction_model, predict_f) no layer receives
\* observations and no targets reach a layer: the likelihood layer gets
\* targets=None in as_prediction_model and is not called by predict_f; in the
\* training view (as_training_model, elbo) every LayerWithObservations receives
\* [inputs, targets] and the likelihood layer receives the targets.
C6_ViewsSeparateTargets ==
    /\ lastOp.op \in {"as_prediction_model", "predict_f"} =>
           /\ \A i \in 1..Len(lastOp.calls) : lastOp.calls[i].observations = None
           /\ \A i \in 1..Len(lastOp.lik_calls) : lastOp.lik_calls[i].targets = None
    /\ lastOp.op = "predict_f" => lastOp.lik_calls = <<>>
    /\ lastOp.op = "as_prediction_model" => Len(lastOp.lik_calls) = 1
    /\ lastOp.op \in {"as_training_model", "elbo"} =>
           /\ lastOp.targets # None
           /\ \A i \in 1..Len(lastOp.calls) :
                  f_layers[i].with_observations =>
                      lastOp.calls[i].observations =
                          Some(<<The(lastOp.inputs), The(lastOp.targets)>>)
           /\ Len(lastOp.lik_calls) = 1
           /\ lastOp.lik_calls[1].targets = lastOp.targets

\* a prediction model built over a LayerWithObservations
C6_Witness ==
    /\ lastOp.op = "as_prediction_model"
    /\ NLayers >= 1
    /\ f_layers[NLayers].with_observations
    /\ lastOp.calls[NLayers].obs_passed

---------------------------------------------------------------------------
\* Properties of the Deep-GP benchmark adapter

\* the last call was fit with the class Config and a Y of num_data rows, one column
FitOfWellShapedData ==
    /\ lastCall.op = "fit"
    /\ ~lastCall.own_config
    /\ lastCall.y_rows = lastCall.num_data
    /\ lastCall.y_cols = Some(1)

\* C7: every fit, whatever fits came before on this or another adapter, trains
\* full-batch when there are at most 1000 rows and on minibatches of 1000 rows
\* when there are more.
C7_EveryFitPicksBatchModeByRows ==
    FitOfWellShapedData =>
        /\ lastCall.trained # None
        /\ The(lastCall.trained).batch_size =
               IF lastCall.num_data <= MINIBATCH THEN None ELSE Some(MINIBATCH)

\* C8: an adapter constructed with is_test=True fits with M = 5 and 500
\* iterations, one constructed with is_test=False with M = 100 and 10000
\* iterations, whichever adapters were constructed before.
C8_TestModeIsPerAdapter ==
    FitOfWellShapedData /\ lastCall.trained # None =>
        LET t == The(lastCall.trained)
        IN  IF adapters[lastCall.self].is_test
            THEN t.M = M_is_test /\ t.MAXITER = MAXITER_is_test
            ELSE t.M = M /\ t.MAXITER = MAXITER

\* C10: fit fails when Y has another number of rows than X or not exactly one
\* column, and then nothing was written: no model, no held-out data, no
\* minibatch setting, no other attribute of an adapter or of Config.
C10_BadTargetsFailBeforeAnyWrite ==
    [][ (lastCall'.op = "fit"
         /\ (lastCall'.y_rows # lastCall'.num_data \/ lastCall'.y_cols # Some(1)))
        => /\ lastCall'.raised # None
           /\ lastCall'.trained = None
           /\ Config' = Config
           /\ adapters' = adapters ]_vars

\* a fit with a two-column Y on a fresh adapter, small data, the class Config
C10_Witness ==
    /\ lastCall.op = "fit"
    /\ ~lastCall.own_config
    /\ lastCall.num_data = 1000
    /\ lastCall.y_rows = 1000
    /\ lastCall.y_cols = Some(2)
    /\ lastCall.raised = Some("AssertionError")
    /\ adapters[lastCall.self].model = None
    /\ adapters[lastCall.self].Xt = None
    /\ Config.MINIBATCH = Some(MINIBATCH)

---------------------------------------------------------------------------
\* Properties of the optimisation loops

\* C9: in both adapters, with NATGRAD the last layer's q_mu and q_sqrt are not
\* trainable from before the first optimizer step to the end of the loop, the
\* parameters Adam updates and those the natural-gradient step updates are
\* disjoint at every iteration, and every other trainable parameter (the first
\* layer's q_mu and q_sqrt among them) is updated by Adam.
C9_AdamLeavesNatgradParamsAlone ==
    pc \notin {"idle", "start"} /\ opt.cfg.NATGRAD =>
        /\ \A p \in var_params : ~trainable[p]
        /\ updated.adam \cap updated.natgrad = {}
        /\ updated.adam # {} =>
               updated.adam =
                   { p \in Params \ var_params :
                       p = "likelihood.variance" => ~opt.cfg.FIX_VAR }


---------------------------------------------------------------------------
\* Properties of init_inducing_points

\* the array the last call returned has the shape and the rows asked for
InducingResultOk ==
    ind.Z # None =>
        LET Z == The(ind.Z)
            N == Len(ind.X.rows)
        IN  /\ shape(Z) = <<ind.num, ind.X.dim>>
            /\ N <= ind.num =>
                  /\ \A i \in 1..N : Z.rows[i] = ind.X.rows[i]
                  /\ \A i \in (N + 1)..ind.num : Z.rows[i].kind = "noise"

\* C13: init_inducing_points(X, num) returns num rows of X's number of columns
\* for every number of rows N of X; when N <= num (N = num included) the
\* first N rows returned are the rows of X in order and the other num - N
\* rows are noise rows; the call leaves X as it was.
C13_ReturnsNumRowsKeepingData == [][ind'.X = ind.X /\ InducingResultOk']_vars

\* a call with as many data rows as inducing points asked for
C13_Witness ==
    /\ ind.Z # None
    /\ Len(ind.X.rows) = ind.num
    /\ ind.num > 1


---------------------------------------------------------------------------
\* Properties of the models the benchmark adapters build

\* the last call was a Conditional-Latent fit with targets of another number
\* of rows than X, or not of exactly one column
LatentFitOfBadTargets ==
    /\ lastFit.op = "fit"
    /\ lastFit.adapter = "latent"
    /\ (lastFit.y_rows # lastFit.num_data \/ lastFit.y_cols # Some(1))

\* C11: the Conditional-Latent adapter's fit rejects targets whose number of
\* rows differs from X's or that do not have exactly one column, before it
\* builds anything of the model and before any training.
C11_LatentFitRejectsBadTargetsFirst ==
    LatentFitOfBadTargets =>
        /\ lastFit.raised # None
        /\ lastFit.built = <<>>
        /\ ~lastFit.trained

\* C12: in both benchmark adapters the last GP layer returns one column for
\* every input dimensionality, and predict on n rows returns a mean and a
\* variance of shape (n, 1).
C12_LastLayerHasWidthOne ==
    /\ latent.model # None =>
          The(latent.model).layers[2].num_latents = 1
    /\ built # None =>
          The(built).layers[2].num_latents = 1
    /\ lastFit.op = "predict" =>
          /\ lastFit.result.mean = <<lastFit.n, 1>>
          /\ lastFit.result.variance = <<lastFit.n, 1>>


---------------------------------------------------------------------------
\* Properties of the encoders

\* C14: DirectlyParameterized(latent_dim, num_data, mean) raises exactly when a
\* mean is supplied whose shape is not (num_data, latent_dim); without a mean
\* it always succeeds; after a successful construction the mean and the
\* scale both have shape (num_data, latent_dim).
C14_DirectRaisesExactlyOnWrongMeanShape ==
    enc.kind = "direct" =>
        /\ enc.raised # None <=>
              (enc.mean_arg # None /\ The(enc.mean_arg) # <<enc.num_data, enc.latent_dim>>)
        /\ enc.raised = None =>
              /\ enc.mean = <<enc.num_data, enc.latent_dim>>
              /\ enc.std = <<enc.num_data, enc.latent_dim>>

\* a supplied mean with the right number of rows, rejected for the rest of its shape
C14_Witness ==
    /\ enc.kind = "direct"
    /\ enc.raised # None
    /\ The(enc.mean_arg)[1] = enc.num_data

\* an encoder was applied to a batch with the number of columns it is built for
Encoded ==
    /\ encOut.op = "encode"
    /\ enc.kind = "network" => encOut.Z[2] = enc.input_dim

\* C15 as stated: both encoder variants return, for a batch of N rows, a mean
\* and a scale of shape N x latent_dim each, for every N.
C15_EncodeReturnsBatchRows ==
    Encoded =>
        /\ encOut.result.raised = None
        /\ encOut.result.mean = <<encOut.Z[1], enc.latent_dim>>
        /\ encOut.result.scale = <<encOut.Z[1], enc.latent_dim>>

\* C15 amended: the recognition network returns a mean and a scale of shape
\* N x latent_dim for every N; the directly-parameterized encoder returns its
\* num_data x latent_dim parameters for every N, hence N x latent_dim exactly
\* when N = num_data.
C15_EncodeShapes ==
    Encoded =>
        LET rows == IF enc.kind = "network" THEN encOut.Z[1] ELSE enc.num_data
        IN  /\ encOut.result.raised = None
            /\ encOut.result.mean = <<rows, enc.latent_dim>>
            /\ encOut.result.scale = <<rows, enc.latent_dim>>

\* a recognition network with hidden layers applied to a batch of several rows
C15_Witness ==
    /\ Encoded
    /\ enc.kind = "network"
    /\ Len(enc.Ws) > 1
    /\ encOut.Z[1] > 1


---------------------------------------------------------------------------
\* Properties of the indexed-kernel experiment script

\* the patch sampler over the first 100 training images
PatchSampler(unique) ==
    [kind |-> "PatchSamplerInitializer", images |-> 1..100, unique |-> unique]

\* C16 as stated: "patches" gives the patch sampler over the first 100 training
\* images without de-duplication, "patches-unique" the same sampler with
\* de-duplication, and every other value the random-normal initializer.
C16_OtherValuesGiveRandomNormal ==
    runs.last # None =>
        LET run == The(runs.last)
        IN  run.model.patches =
                IF run.cfg.init_patches = "patches" THEN PatchSampler(FALSE)
                ELSE IF run.cfg.init_patches = "patches-unique" THEN PatchSampler(TRUE)
                ELSE [kind |-> "NormalInitializer"]

\* C16 amended: "random" gives the random-normal initializer, "patches-unique"
\* the patch sampler over the first 100 training images with de-duplication,
\* and every other value, "patches" included, that sampler without
\* de-duplication.
C16_OtherValuesGivePatchSampler ==
    runs.last # None =>
        LET run == The(runs.last)
        IN  run.model.patches =
                IF run.cfg.init_patches = "random" THEN [kind |-> "NormalInitializer"]
                ELSE IF run.cfg.init_patches = "patches-unique" THEN PatchSampler(TRUE)
                ELSE PatchSampler(FALSE)

\* a run with a strategy that is none of the three named ones
C16_Witness ==
    /\ runs.last # None
    /\ The(runs.last).cfg.init_patches \notin {"patches", "patches-unique", "random"}

\* the settings go into the name in the fixed order
NameInOrder(run) ==
    /\ run.name = join([i \in 1..Len(run.args) |-> astype_str(run.args[i])])
    /\ <<run.args[1], run.args[3], run.args[5], run.args[7]>> =
          <<[str |-> run.cfg.dataset], [str |-> run.cfg.init_patches],
            [str |-> run.cfg.base_kern], run.cfg.adam_lr>>
    /\ <<run.args[9], run.args[11]>> = <<[int |-> run.cfg.M], [int |-> run.cfg.minibatch_size]>>
    /\ run.args[13].int \in {run.cfg.patch_size[1], run.cfg.patch_size[2]}

\* C17: experiment_name gives equal settings the same name, built in the order
\* dataset, init-patches strategy, kernel family, learning rate, M, minibatch
\* size, patch; two configurations that differ in any of these settings (the
\* patch size included) get different names.
C17_DifferentConfigsDifferentNames ==
    /\ runs.last # None => NameInOrder(The(runs.last))
    /\ (runs.last # None /\ runs.prev # None) =>
          (The(runs.prev).cfg = The(runs.last).cfg <=> The(runs.prev).name = The(runs.last).name)


---------------------------------------------------------------------------
\* Properties of the experiment runner

\* the positions whose experiment is running
Running == { i \in 1..Len(exps) : exps[i].status = "running" }

\* the positions whose experiment has ended
Ended == { i \in 1..Len(exps) : exps[i].status \in {"completed", "failed"} }

\* the devices held by running experiments
HeldDevices == { The(exps[i].gpu) : i \in Running }

\* at most g experiments run, each on a device of its own
ExclusiveDevices ==
    /\ Cardinality(Running) <= Len(dargs.gpus)
    /\ \A i, j \in Running : i # j => exps[i].gpu # exps[j].gpu

\* C18: with g devices and k specifications, at most g experiments run at any
\* moment and no two running experiments hold the same device; a device goes
\* to the next queued specification only when no running experiment holds it.
C18_DevicesAreExclusive ==
    [][ /\ ExclusiveDevices'
        /\ \A i \in 1..Len(exps) :
              (exps[i].status = "queued" /\ exps'[i].status = "running")
                  => The(exps'[i].gpu) \notin HeldDevices ]_vars

\* every device busy, a specification waiting, and a device on its second
\* experiment
C18_Witness ==
    /\ dargs.example # "none"
    /\ queue # <<>>
    /\ Cardinality(Running) = Len(dargs.gpus)
    /\ Ended # {}

\* every specification started once, its output location its own
StartedOnceApart ==
    /\ \A i \in 1..Len(exps) :
          /\ exps[i].starts = (IF exps[i].status = "queued" THEN 0 ELSE 1)
          /\ Len(SelectSeq(startOrder, LAMBDA p : p = i)) = exps[i].starts
    /\ \A i, j \in 1..Len(exps) :
          (i # j /\ exps[i].location # None) => exps[i].location # exps[j].location

\* a step in which an experiment fails changes nothing but that experiment
FailureIsContained ==
    \A i \in 1..Len(exps) :
        (exps[i].status = "running" /\ exps'[i].status = "failed") =>
            /\ \A j \in 1..Len(exps) : j # i => exps'[j] = exps[j]
            /\ queue' = queue
            /\ dargs' = dargs

\* the run is over: every specification has ended
AllEnded ==
    /\ dargs.example # "none"
    /\ Ended = 1..Len(exps)

C20_RepeatedInOrderStartedInOrder ==
    dargs.example # "none" =>
        LET base == experiments_lists(dargs.example)
            k    == Len(base)
        IN  /\ Len(handed) = k * dargs.repetitions
            /\ \A i \in 0..(Len(handed) - 1) : handed[i + 1] = base[(i % k) + 1]
            /\ \A a, b \in 1..Len(startOrder) : a < b => startOrder[a] < startOrder[b]
            /\ \A i \in 1..Len(exps) :
                  exps[i].status # "queued" => \A j \in 1..i : exps[j].status # "queued"

\* the two specifications of basic_example repeated, all started
C20_Witness ==
    /\ dargs.example = "basic_example"
    /\ dargs.repetitions > 1
    /\ Len(startOrder) = Len(handed)


---------------------------------------------------------------------------
\* Properties of the convolutional kernel

\* C21: for every image shape W x H and patch shape w x h with w <= W and
\* h <= H the kernel reports num_patches = (W - w + 1) * (H - h + 1), which
\* equals Hout * Wout with Hout = H - h + 1 and Wout = W - w + 1, and
\* patch_len = w * h; the tests of these values pass.
C21_PatchCounts ==
    /\ conv.kind # "none" =>
          LET W == conv.image_shape[1]
              H == conv.image_shape[2]
              w == conv.patch_shape[1]
              h == conv.patch_shape[2]
          IN  /\ conv.num_patches = (W - w + 1) * (H - h + 1)
              /\ conv.Hout = H - h + 1
              /\ conv.Wout = W - w + 1
              /\ conv.num_patches = conv.Hout * conv.Wout
              /\ conv.patch_len = w * h
    /\ convTest.test # "none" => convTest.passed

\* a kernel for an image that is not square and a smaller patch that is not square
C21_Witness ==
    /\ conv.kind # "none"
    /\ conv.image_shape[1] # conv.image_shape[2]
    /\ conv.patch_shape[1] # conv.patch_shape[2]
    /\ conv.patch_shape[1] < conv.image_shape[1]
    /\ conv.patch_shape[2] > 1


---------------------------------------------------------------------------
\* Properties of the order and number of optimizer steps

\* C22: in both adapters' loops every iteration runs one natural-gradient step
\* (with NATGRAD) and then one Adam step: at the head of iteration i both have
\* run i times, the natural-gradient step is never behind Adam and at most one
\* ahead, and after the loop both have run MAXITER times; without NATGRAD no
\* natural-gradient step ever runs and Adam still runs MAXITER times.
C22_OneNatgradThenOneAdamPerIteration ==
    pc \notin {"idle", "start"} /\ opt.adapter \in {"deep", "latent"} =>
        /\ pc = "iteration" =>
               /\ steps.adam = iter
               /\ steps.natgrad = IF opt.cfg.NATGRAD THEN iter ELSE 0
        /\ opt.cfg.NATGRAD =>
               /\ steps.adam <= steps.natgrad
               /\ steps.natgrad <= steps.adam + 1
        /\ ~opt.cfg.NATGRAD => steps.natgrad = 0
        /\ pc = "done" =>
               /\ steps.adam = opt.cfg.MAXITER
               /\ opt.cfg.NATGRAD => steps.natgrad = opt.cfg.MAXITER

\* the Deep-GP adapter's loop has ended after the MAXITER passes of test mode, with
\* NATGRAD
C22_Witness ==
    /\ pc = "done"
    /\ opt.adapter = "deep"
    /\ opt.cfg.NATGRAD
    /\ opt.cfg.MAXITER = MAXITER_is_test
    /\ steps.natgrad = MAXITER_is_test
    /\ steps.adam = MAXITER_is_test


---------------------------------------------------------------------------
\* Properties of the indexed-kernel script's main

\* what main has done so far is the beginning of: load the data, build and
\* compile the model, capture the traces
TracePath ==
    LET path == << "data", "setup_model", "compile", "enquire_session",
                   "create_global_step", "trace_run" >>
        done == mainRun.steps
    IN  /\ Len(done) <= Len(path)
        /\ \A i \in 1..Len(done) : done[i] = path[i]

\* the files written so far: none before the traces, then the likelihood trace
\* and the Adam-step trace, in that order
TraceFiles ==
    IF \E i \in 1..Len(mainRun.steps) : mainRun.steps[i] = "trace_run"
    THEN /\ Len(mainRun.files) = 2
         /\ mainRun.files[1] = "trace_likelihood_M_" \o ToString(The(mainRun.cfg).M) \o "_N_"
                                 \o ToString(The(mainRun.cfg).minibatch_size) \o "_pyfunc.json"
         /\ mainRun.files[2] = "trace_adam_M_" \o ToString(The(mainRun.cfg).M) \o "_N_"
                                 \o ToString(The(mainRun.cfg).minibatch_size) \o "_pyfunc.json"
    ELSE mainRun.files = <<>>

\* main has returned 0 with the model built and both traces captured
ReturnedZero ==
    /\ mainRun.returned = Some(0)
    /\ mainRun.model # None
    /\ Len(mainRun.steps) = 6
    /\ Len(mainRun.files) = 2

\* C23: every run of main loads the data, builds and compiles the model,
\* captures the likelihood trace and then the Adam-step trace, one file each,
\* and returns 0; restore, optimizer setup, monitor setup, training, finish and
\* model saving are executed in no run.
C23_MainTracesAndReturnsZero ==
    /\ [](TracePath /\ TraceFiles /\ (mainRun.returned # None => ReturnedZero))
    /\ (mainRun.pc # 0) ~> ReturnedZero

\* a run with 100 inducing points has returned after writing its two traces
C23_Witness ==
    /\ mainRun.returned = Some(0)
    /\ mainRun.steps[Len(mainRun.steps)] = "trace_run"
    /\ mainRun.files = << "trace_likelihood_M_100_N_100_pyfunc.json",
                          "trace_adam_M_100_N_100_pyfunc.json" >>


---------------------------------------------------------------------------
\* Properties of the Monitor context around the training loops

=============================================================================
